---- MODULE Spec2Model ----
(***************************************************************************)
(* Pedigree profiler: the family graph (Individual), the carrier           *)
(* heuristic (Individual.is_carrier) and the mode-of-inheritance           *)
(* elimination (Pedigree.find_mode_of_inheritance) of                      *)
(* src/pedigree_profiler.py.                                               *)
(*                                                                         *)
(* The heap of Individual objects is the sequence ind: object k is ind[k]. *)
(* A reference to an Individual is its index, and the null reference is    *)
(* None. Strings stand for Python's None/True/False results where a result *)
(* may also be an exception.                                               *)
(***************************************************************************)
EXTENDS Integers, Sequences, FiniteSets, TLC

VARIABLES ind, ret, calls, pc

vars == <<ind, ret, calls, pc>>

\* ---------------------------------------------------------------- bounds

\* Individuals the exploring caller constructs.
MaxIndividuals == 2

\* add_parent_child_relationship calls the exploring caller makes.
MaxCalls == 2

\* ------------------------------------------------------------ vocabulary

\* The null reference (mother=None, father=None).
None == 0

Sexes == {"M", "F"}

\* Tags a caller may pass to add_parent_child_relationship: the two
\* recognized ones and one that is neither.
Tags == {"M", "F", "X"}

AD == "Autosomal Dominant"
AR == "Autosomal Recessive"
XD == "X-Linked Dominant"
XR == "X-Linked Recessive"

\* possible_modes as find_mode_of_inheritance initializes it.
AllModes == {AD, AR, XD, XR}

AttributeError == "AttributeError"

\* ------------------------------------------------------------ Individual

\* Individual.__init__ with mother, father and children left at their
\* defaults.
Individual(id_number, sex, affected) ==
  [id |-> id_number, sex |-> sex, affected |-> affected,
   mother |-> None, father |-> None, children |-> <<>>]

\* A plausible slip: the tag is ignored and the parent fills both roles.
add_parent_child_relationship_both(h, self, parent, sex) ==
  IF sex \in {"M", "F"}
  THEN [h EXCEPT ![self].father = parent,
                 ![self].mother = parent,
                 ![parent].children = Append(@, self)]
  ELSE h

\* A plausible slip: the mother branch forgets to append to the children.
add_parent_child_relationship_noappend(h, self, parent, sex) ==
  IF sex = "M"
  THEN [h EXCEPT ![self].father = parent,
                 ![parent].children = Append(@, self)]
  ELSE IF sex = "F"
  THEN [h EXCEPT ![self].mother = parent]
  ELSE h

\* Individual.add_parent_child_relationship: the heap after the call.
add_parent_child_relationship(h, self, parent, sex) ==
  IF sex = "M"
  THEN [h EXCEPT ![self].father = parent,
                 ![parent].children = Append(@, self)]
  ELSE IF sex = "F"
  THEN [h EXCEPT ![self].mother = parent,
                 ![parent].children = Append(@, self)]
  ELSE h

\* any(child.affected and not child.<role>.affected for child in children),
\* evaluated left to right as Python does: it stops at the first child that
\* makes it true, and reading .affected of a missing parent raises.
RECURSIVE any_affected_child(_, _, _)
any_affected_child(h, children, role) ==
  IF children = <<>> THEN "False"
  ELSE LET child == h[Head(children)]
       IN  IF ~child.affected
           THEN any_affected_child(h, Tail(children), role)
           ELSE IF child[role] = None THEN AttributeError
           ELSE IF ~h[child[role]].affected THEN "True"
           ELSE any_affected_child(h, Tail(children), role)

\* any(sibling.affected for sibling in mother.children + father.children
\*     if sibling != self)
any_affected_sibling(h, self) ==
  LET siblings == h[h[self].mother].children \o h[h[self].father].children
  IN  \E k \in 1..Len(siblings) :
        siblings[k] # self /\ h[siblings[k]].affected

\* Individual.is_carrier: "None", "True", "False", or AttributeError.
is_carrier(h, self) ==
  LET me == h[self]
      female == IF me.sex = "F" /\ ~me.affected
                THEN any_affected_child(h, me.children, "father")
                ELSE "False"
      male   == IF me.sex = "M" /\ ~me.affected
                THEN any_affected_child(h, me.children, "mother")
                ELSE "False"
  IN  IF me.mother = None \/ me.father = None THEN "None"
      ELSE IF me.children = <<>> THEN "None"
      ELSE IF female # "False" THEN female
      ELSE IF male # "False" THEN male
      ELSE IF /\ ~me.affected
              /\ ~h[me.mother].affected
              /\ ~h[me.father].affected
              /\ any_affected_sibling(h, self)
           THEN "True"
           ELSE "False"

\* -------------------------------------------------------------- Pedigree

\* A plausible slip: the scan stops at the first unaffected individual
\* (break) instead of skipping it.
RECURSIVE find_affected_until_unaffected(_, _)
find_affected_until_unaffected(h, individuals) ==
  IF individuals = <<>> \/ ~h[Head(individuals)].affected THEN <<>>
  ELSE <<Head(individuals)>>
       \o find_affected_until_unaffected(h, Tail(individuals))

\* Pedigree.find_affected: the affected individuals, in collection order.
find_affected(h, individuals) ==
  SelectSeq(individuals, LAMBDA i : h[i].affected)

\* `not parent.affected and not parent.is_carrier()`: "True", "False", or
\* AttributeError when is_carrier is reached and raises.
unaffected_non_carrier(h, parent) ==
  IF h[parent].affected THEN "False"
  ELSE LET c == is_carrier(h, parent)
       IN  IF c = AttributeError THEN AttributeError
           ELSE IF c = "True" THEN "False" ELSE "True"

\* The body of the loop for one affected individual: the candidate set
\* after it, or raised when an is_carrier call raises.
visit(h, individual, possible_modes) ==
  LET i == h[individual]
      m1 == IF ~h[i.father].affected /\ ~h[i.mother].affected
            THEN possible_modes \ {AD, XD} ELSE possible_modes
      f  == unaffected_non_carrier(h, i.father)
      \* `or` evaluates the mother's side only when the father's is false
      ar == IF f = "False" THEN unaffected_non_carrier(h, i.mother) ELSE f
      m2 == IF ar = "True" THEN m1 \ {AR} ELSE m1
      xr == IF i.sex = "M" THEN unaffected_non_carrier(h, i.mother)
            ELSE "False"
      m3 == IF xr = "True" THEN m2 \ {XR} ELSE m2
  IN  IF i.father = None \/ i.mother = None
      THEN [raised |-> FALSE, modes |-> possible_modes]
      ELSE IF ar = AttributeError \/ xr = AttributeError
      THEN [raised |-> TRUE, modes |-> {}]
      ELSE [raised |-> FALSE, modes |-> m3]

\* The loop over find_affected(): an exception ends the call.
RECURSIVE eliminate(_, _, _)
eliminate(h, affected, possible_modes) ==
  IF affected = <<>> THEN [raised |-> FALSE, modes |-> possible_modes]
  ELSE LET r == visit(h, Head(affected), possible_modes)
       IN  IF r.raised THEN r
           ELSE eliminate(h, Tail(affected), r.modes)

\* Pedigree.find_mode_of_inheritance on the collection individuals: raised
\* (an AttributeError left the call), or the returned value: single when a
\* mode is returned alone (possible_modes.pop()), otherwise the set.
find_mode_of_inheritance(h, individuals) ==
  LET r == eliminate(h, find_affected(h, individuals), AllModes)
  IN  [raised |-> r.raised,
       single |-> ~r.raised /\ Cardinality(r.modes) = 1,
       modes  |-> r.modes]

\* ----------------------------------------------------- calls and returns

\* The value find_mode_of_inheritance has when it was not the last call.
NoOutcome == [raised |-> FALSE, single |-> FALSE, modes |-> {}]

\* ret: the most recent call (op) and what it returned: carrier for
\* is_carrier, outcome for find_mode_of_inheritance.
Returned(op, carrier, outcome) ==
  [op |-> op, carrier |-> carrier, outcome |-> outcome]

\* The references to the individuals of heap h, in construction order.
Refs(h) == [k \in 1..Len(h) |-> k]

\* The collection that holds the individuals of S in construction order,
\* as the lists individuals_9 .. individuals_12 do.
Collection(h, S) == SelectSeq(Refs(h), LAMBDA k : k \in S)

\* Individual(id, sex, affected): a new object on the heap.
Construct(id_number, sex, affected) ==
  /\ ind' = Append(ind, Individual(id_number, sex, affected))
  /\ ret' = Returned("Individual", "None", NoOutcome)

\* self.add_parent_child_relationship(parent, sex); it returns None.
Relate(self, parent, sex) ==
  /\ ind' = add_parent_child_relationship(ind, self, parent, sex)
  /\ ret' = Returned("add_parent_child_relationship", "None",
                     NoOutcome)

\* Pedigree(individuals).find_mode_of_inheritance()
Query(individuals) ==
  /\ ret' = Returned("find_mode_of_inheritance", "None",
                     find_mode_of_inheritance(ind, individuals))
  /\ UNCHANGED ind

\* self.is_carrier()
Carrier(self) ==
  /\ ret' = Returned("is_carrier", is_carrier(ind, self),
                     NoOutcome)
  /\ UNCHANGED ind

\* ------------------------------------------------ an arbitrary caller

Init ==
  /\ ind = <<>>
  /\ ret = Returned("none", "None", NoOutcome)
  /\ calls = 0
  /\ pc = 0

\* Individuals are interchangeable: no operation reads an object's place on
\* the heap or its id. The caller therefore constructs them in one order
\* of (affected, sex), unaffected first; every family is a renaming of one
\* built this way.
Kind(sex, affected) ==
  (IF affected THEN 2 ELSE 0) + (IF sex = "M" THEN 1 ELSE 0)

NewIndividual ==
  /\ Len(ind) < MaxIndividuals
  /\ \E sex \in Sexes, affected \in BOOLEAN :
       /\ ind # <<>> =>
            Kind(sex, affected)
              >= Kind(ind[Len(ind)].sex, ind[Len(ind)].affected)
       /\ Construct(Len(ind) + 1, sex, affected)
  /\ UNCHANGED <<calls, pc>>

AddParentChildRelationship ==
  /\ calls < MaxCalls
  /\ \E self \in 1..Len(ind), parent \in 1..Len(ind), sex \in Tags :
       Relate(self, parent, sex)
  /\ calls' = calls + 1
  /\ UNCHANGED pc

FindModeOfInheritance ==
  /\ \E S \in SUBSET (1..Len(ind)) : Query(Collection(ind, S))
  /\ UNCHANGED <<calls, pc>>

IsCarrier ==
  /\ \E self \in 1..Len(ind) : Carrier(self)
  /\ UNCHANGED <<calls, pc>>

Next ==
  \/ NewIndividual
  \/ AddParentChildRelationship
  \/ FindModeOfInheritance
  \/ IsCarrier

Spec == Init /\ [][Next]_vars

\* --------------------------------------- a half-recorded family, extended

\* Two founders (1, 2), their son (3), his partner (4), and two affected
\* children: a daughter (5) and a son (6).
Family ==
  << Individual(1, "M", FALSE), Individual(2, "F", FALSE),
     Individual(3, "M", FALSE), Individual(4, "F", FALSE),
     Individual(5, "F", TRUE),  Individual(6, "M", TRUE) >>

\* The calls made so far, in order, as <<child, parent, tag>>: the daughter
\* has only her father recorded (as I8..I12 of the examples have one
\* parent), the son has both parents, and of the father's own parents only
\* his father is recorded yet.
RecordedSoFar ==
  << <<5, 3, "M">>, <<6, 3, "M">>, <<6, 4, "F">>, <<3, 1, "M">> >>

\* The heap after the first n calls of RecordedSoFar on Family.
RECURSIVE Recorded(_)
Recorded(n) ==
  IF n = 0 THEN Family
  ELSE add_parent_child_relationship(Recorded(n - 1), RecordedSoFar[n][1],
                                     RecordedSoFar[n][2], RecordedSoFar[n][3])

HalfRecorded == Recorded(Len(RecordedSoFar))

InitHalfRecorded ==
  /\ ind = HalfRecorded
  /\ ret = Returned("add_parent_child_relationship", "None",
                    NoOutcome)
  /\ calls = 0
  /\ pc = 0

NextHalfRecorded ==
  \/ AddParentChildRelationship
  \/ FindModeOfInheritance
  \/ IsCarrier

SpecHalfRecorded == InitHalfRecorded /\ [][NextHalfRecorded]_vars

\* ------------------------------------------------------- the main block

\* Test Pedigree 9 - Autosomal Recessive: the sex and affected flag of I1..I12.
People9 ==
  << <<"M", FALSE>>, <<"F", FALSE>>, <<"F", FALSE>>, <<"M", FALSE>>,
     <<"F", TRUE>>, <<"M", FALSE>>, <<"F", FALSE>>, <<"M", TRUE>>,
     <<"F", FALSE>>, <<"M", FALSE>>, <<"F", TRUE>>, <<"M", FALSE>> >>

\* Test Pedigree 9: its add_parent_child_relationship calls, in order,
\* as <<child, parent, tag>>.
Relationships9 ==
  << <<3, 1, "M">>, <<3, 2, "F">>, <<4, 1, "M">>, <<4, 2, "F">>,
     <<5, 3, "F">>, <<5, 4, "M">>, <<6, 3, "F">>, <<6, 4, "M">>,
     <<7, 3, "F">>, <<7, 4, "M">>, <<8, 5, "F">>, <<9, 5, "F">>,
     <<10, 5, "F">>, <<11, 6, "M">>, <<12, 7, "F">> >>

\* Test Pedigree 10 - X-Linked Dominant: the sex and affected flag of I1..I12.
People10 ==
  << <<"M", FALSE>>, <<"F", TRUE>>, <<"F", FALSE>>, <<"M", FALSE>>,
     <<"F", TRUE>>, <<"M", FALSE>>, <<"F", TRUE>>, <<"F", FALSE>>,
     <<"M", FALSE>>, <<"F", TRUE>>, <<"M", FALSE>>, <<"F", TRUE>> >>

\* Test Pedigree 10: its add_parent_child_relationship calls, in order,
\* as <<child, parent, tag>>.
Relationships10 ==
  << <<3, 1, "M">>, <<3, 2, "F">>, <<4, 1, "M">>, <<4, 2, "F">>,
     <<5, 2, "F">>, <<6, 3, "F">>, <<7, 3, "F">>, <<8, 4, "M">>,
     <<9, 4, "M">>, <<10, 5, "F">>, <<11, 6, "F">>, <<12, 7, "F">> >>

\* Test Pedigree 11 - Autosomal Dominant: the sex and affected flag of I1..I12.
People11 ==
  << <<"M", TRUE>>, <<"F", FALSE>>, <<"F", TRUE>>, <<"M", FALSE>>,
     <<"M", TRUE>>, <<"F", FALSE>>, <<"M", TRUE>>, <<"F", FALSE>>,
     <<"M", TRUE>>, <<"F", FALSE>>, <<"M", TRUE>>, <<"F", FALSE>> >>

\* Test Pedigree 11: its add_parent_child_relationship calls, in order,
\* as <<child, parent, tag>>.
Relationships11 ==
  << <<3, 1, "M">>, <<3, 2, "F">>, <<4, 1, "M">>, <<4, 2, "F">>,
     <<5, 3, "F">>, <<6, 4, "M">>, <<7, 3, "F">>, <<8, 4, "M">>,
     <<9, 5, "M">>, <<10, 6, "F">>, <<11, 7, "M">>, <<12, 8, "F">> >>

\* Test Pedigree 12 - X-Linked Recessive: the sex and affected flag of I1..I12.
People12 ==
  << <<"F", FALSE>>, <<"M", TRUE>>, <<"M", FALSE>>, <<"F", FALSE>>,
     <<"M", TRUE>>, <<"F", FALSE>>, <<"M", FALSE>>, <<"F", FALSE>>,
     <<"M", TRUE>>, <<"F", FALSE>>, <<"M", FALSE>>, <<"F", FALSE>> >>

\* Test Pedigree 12: its add_parent_child_relationship calls, in order,
\* as <<child, parent, tag>>.
Relationships12 ==
  << <<3, 1, "F">>, <<3, 2, "M">>, <<4, 1, "F">>, <<4, 2, "M">>,
     <<5, 4, "F">>, <<6, 3, "M">>, <<7, 3, "M">>, <<8, 4, "F">>,
     <<9, 6, "F">>, <<10, 7, "M">>, <<11, 8, "F">>, <<12, 8, "F">> >>

\* One test of the main block as its steps: the twelve constructors, the
\* relationship calls, then Pedigree(individuals_n).find_mode_of_inheritance()
\* on [I1, .., I12]. base is the number of objects constructed before it.
Block(base, people, relationships) ==
  [k \in 1..Len(people) |->
     [op |-> "Individual", id |-> k,
      sex |-> people[k][1], affected |-> people[k][2]]]
  \o
  [k \in 1..Len(relationships) |->
     [op |-> "add_parent_child_relationship",
      self |-> base + relationships[k][1],
      parent |-> base + relationships[k][2],
      sex |-> relationships[k][3]]]
  \o
  << [op |-> "find_mode_of_inheritance",
      individuals |-> [k \in 1..Len(people) |-> base + k]] >>

Block9  == Block(0, People9, Relationships9)
Block10 == Block(Len(People9), People10, Relationships10)
Block11 == Block(Len(People9) + Len(People10), People11, Relationships11)
Block12 == Block(Len(People9) + Len(People10) + Len(People11),
                 People12, Relationships12)

\* The main block, statement by statement (visualize_pedigree draws and
\* changes nothing).
MainBlock == Block9 \o Block10 \o Block11 \o Block12

\* pc when the find_mode_of_inheritance call of a test has just returned.
Printed9  == Len(Block9) + 1
Printed10 == Len(Block9) + Len(Block10) + 1
Printed11 == Len(Block9) + Len(Block10) + Len(Block11) + 1
Printed12 == Len(MainBlock) + 1

InitMain ==
  /\ ind = <<>>
  /\ ret = Returned("none", "None", NoOutcome)
  /\ calls = 0
  /\ pc = 1

MainIndividual ==
  /\ pc \in 1..Len(MainBlock)
  /\ MainBlock[pc].op = "Individual"
  /\ Construct(MainBlock[pc].id, MainBlock[pc].sex, MainBlock[pc].affected)
  /\ pc' = pc + 1
  /\ UNCHANGED calls

MainRelationship ==
  /\ pc \in 1..Len(MainBlock)
  /\ MainBlock[pc].op = "add_parent_child_relationship"
  /\ Relate(MainBlock[pc].self, MainBlock[pc].parent, MainBlock[pc].sex)
  /\ pc' = pc + 1
  /\ UNCHANGED calls

MainFind ==
  /\ pc \in 1..Len(MainBlock)
  /\ MainBlock[pc].op = "find_mode_of_inheritance"
  /\ Query(MainBlock[pc].individuals)
  /\ pc' = pc + 1
  /\ UNCHANGED calls

NextMain ==
  \/ MainIndividual
  \/ MainRelationship
  \/ MainFind

SpecMain == InitMain /\ [][NextMain]_vars

\* ==================================================================
\* Properties
\* ==================================================================

\* Every collection a caller can pass: a subset of the constructed
\* individuals, in construction order.
Collections == {Collection(ind, S) : S \in SUBSET (1..Len(ind))}

\* The orderings of a sequence.
Orderings(seq) ==
  {[k \in 1..Len(seq) |-> seq[f[k]]] : f \in Permutations(1..Len(seq))}

\* The heaps that differ from h only in the order of the children
\* sequences of the individuals 1..n.
RECURSIVE Reordered(_, _)
Reordered(h, n) ==
  IF n = 0 THEN {h}
  ELSE UNION {{[g EXCEPT ![n].children = c] : c \in Orderings(h[n].children)}
              : g \in Reordered(h, n - 1)}

\* The recorded parents of individual i: 0, 1 or 2.
ParentCount(h, i) ==
  (IF h[i].mother # None THEN 1 ELSE 0) + (IF h[i].father # None THEN 1 ELSE 0)

\* i occurs in the children sequence of p.
ChildOf(h, i, p) == \E k \in 1..Len(h[p].children) : h[p].children[k] = i

\* The affected individuals of a collection that have both parents
\* recorded.
Informative(h, individuals) ==
  {individuals[k] : k \in {n \in 1..Len(individuals) :
      /\ h[individuals[n]].affected
      /\ h[individuals[n]].mother # None
      /\ h[individuals[n]].father # None}}

\* ---- C1
\* C1: find_mode_of_inheritance never fails: whatever relationship calls
\* built the graph, a call returns a mode or a set of modes and raises
\* nothing.
NeverFails ==
  ret.op = "find_mode_of_inheritance" => ~ret.outcome.raised

\* ---- C2
\* The candidate set C2 describes: the four modes minus the discards that
\* the informative individuals trigger.
DescribedModes(h, individuals) ==
  LET I == Informative(h, individuals)
      NotCarrier(p) == ~h[p].affected /\ is_carrier(h, p) # "True"
      dominant == \E x \in I : ~h[h[x].father].affected
                               /\ ~h[h[x].mother].affected
      recessive == \E x \in I : NotCarrier(h[x].father)
                                \/ NotCarrier(h[x].mother)
      xlinked == \E x \in I : h[x].sex = "M" /\ NotCarrier(h[x].mother)
  IN  AllModes \ ( (IF dominant THEN {AD, XD} ELSE {})
                   \cup (IF recessive THEN {AR} ELSE {})
                   \cup (IF xlinked THEN {XR} ELSE {}) )

\* C2: for every collection, find_mode_of_inheritance returns exactly the
\* described candidate set, alone when it has one element.
ExactDiscards ==
  \A individuals \in Collections :
    find_mode_of_inheritance(ind, individuals)
      = [raised |-> FALSE,
         single |-> Cardinality(DescribedModes(ind, individuals)) = 1,
         modes  |-> DescribedModes(ind, individuals)]

\* ---- C3
\* The outcome of a call that returned the mode m alone.
Alone(m) == [raised |-> FALSE, single |-> TRUE, modes |-> {m}]

\* C3: Scenario A: on Test Pedigree 9 find_mode_of_inheritance returns
\* "Autosomal Recessive" as the sole remaining mode.
ScenarioA ==
  pc = Printed9 => ret.outcome = Alone(AR)

\* ---- C4
\* C4: Scenario C: on Test Pedigree 11 find_mode_of_inheritance returns
\* the single mode "Autosomal Dominant".
ScenarioC ==
  pc = Printed11 => ret.outcome = Alone(AD)

\* ---- C5
\* C5: the outcome of find_mode_of_inheritance does not depend on the
\* order of the individuals collection nor on the order of the children
\* sequences: every reordering of both gives the same outcome.
OrderIndependent ==
  \A individuals \in Collections :
    \A reordered \in Orderings(individuals) :
      \A h \in Reordered(ind, Len(ind)) :
        find_mode_of_inheritance(h, reordered)
          = find_mode_of_inheritance(ind, individuals)

\* ---- C6
\* C6: elimination is monotone: when find_mode_of_inheritance returns on a
\* collection, it returns on every sub-collection as well, and every mode
\* that remains for the collection remains for the sub-collection.
EliminationMonotone ==
  \A S \in SUBSET (1..Len(ind)) :
    LET full == find_mode_of_inheritance(ind, Collection(ind, S))
    IN  ~full.raised =>
          \A T \in SUBSET S :
            LET sub == find_mode_of_inheritance(ind, Collection(ind, T))
            IN  ~sub.raised /\ full.modes \subseteq sub.modes

\* A call has returned a candidate set that a sub-collection does not
\* narrow as far: the omitted individuals carried the evidence.
EliminationWitness ==
  /\ ret.op = "find_mode_of_inheritance"
  /\ ~ret.outcome.raised
  /\ \E S \in SUBSET (1..Len(ind)) : \E T \in SUBSET S :
       /\ find_mode_of_inheritance(ind, Collection(ind, S)) = ret.outcome
       /\ ~find_mode_of_inheritance(ind, Collection(ind, T)).raised
       /\ find_mode_of_inheritance(ind, Collection(ind, T)).modes
            # ret.outcome.modes
       /\ T # {}

\* ---- C7
\* The call self.add_parent_child_relationship(parent, sex) that turns h
\* into g appended self once to the end of parent's children and touched
\* no other children sequence.
AppendedOnce(h, g, self, parent) ==
  /\ g[parent].children = Append(h[parent].children, self)
  /\ \A q \in DOMAIN h : q # parent => g[q].children = h[q].children

\* C7: parent-to-child symmetry: every individual with a recorded mother
\* (father) occurs in that mother's (father's) children, and every call
\* with a recognized tag appends the child to the parent's children
\* exactly once.
ParentChildSymmetry ==
  /\ \A i \in DOMAIN ind :
       /\ ind[i].mother # None => ChildOf(ind, i, ind[i].mother)
       /\ ind[i].father # None => ChildOf(ind, i, ind[i].father)
  /\ \A self \in DOMAIN ind, parent \in DOMAIN ind, sex \in Sexes :
       AppendedOnce(ind,
                    add_parent_child_relationship(ind, self, parent, sex),
                    self, parent)

\* A relationship call has just given an individual its second parent.
SymmetryWitness ==
  /\ ret.op = "add_parent_child_relationship"
  /\ \E i \in DOMAIN ind : ParentCount(ind, i) = 2

\* ---- C8
\* C8 as stated: every individual has zero or exactly two recorded parents.
ZeroOrTwoParents ==
  \A i \in DOMAIN ind : ParentCount(ind, i) \in {0, 2}

\* C8 as amended: a step records at most one parent of an individual and
\* clears none, so an individual has zero, one or two recorded parents and
\* gets its second parent in a later call than its first.
OneParentPerCall ==
  [][\A i \in DOMAIN ind :
       ParentCount(ind', i) \in {ParentCount(ind, i),
                                 ParentCount(ind, i) + 1}]_vars

\* A relationship call has left an individual with exactly one recorded
\* parent.
OneParentWitness ==
  /\ ret.op = "add_parent_child_relationship"
  /\ \E i \in DOMAIN ind : ParentCount(ind, i) = 1

\* ---- C9
\* The carrier status C9 describes.
DescribedCarrier(h, self) ==
  LET me == h[self]
      Unaffected(p) == p # None /\ ~h[p].affected
      kids == {me.children[k] : k \in 1..Len(me.children)}
      siblings == {h[me.mother].children[k] :
                     k \in 1..Len(h[me.mother].children)}
                  \cup {h[me.father].children[k] :
                     k \in 1..Len(h[me.father].children)}
  IN  IF me.mother = None \/ me.father = None \/ me.children = <<>>
      THEN "None"
      ELSE IF \/ /\ me.sex = "F" /\ ~me.affected
                 /\ \E c \in kids : h[c].affected /\ Unaffected(h[c].father)
              \/ /\ me.sex = "M" /\ ~me.affected
                 /\ \E c \in kids : h[c].affected /\ Unaffected(h[c].mother)
              \/ /\ ~me.affected
                 /\ ~h[me.mother].affected /\ ~h[me.father].affected
                 /\ \E s \in siblings \ {self} : h[s].affected
      THEN "True"
      ELSE "False"

\* C9: is_carrier returns one of True, False, Indeterminate for every
\* individual of the graph, and the one C9 describes.
CarrierTotal ==
  /\ ret.op = "is_carrier" => ret.carrier \in {"True", "False", "None"}
  /\ \A self \in DOMAIN ind :
       is_carrier(ind, self) = DescribedCarrier(ind, self)

\* ---- C10
\* C10: child-to-parent consistency: every entry of an individual's
\* children sequence has that individual as its current mother or father.
ChildParentConsistency ==
  \A p \in DOMAIN ind : \A k \in 1..Len(ind[p].children) :
    LET c == ind[p].children[k]
    IN  ind[c].mother = p \/ ind[c].father = p

====
